---- MODULE Spec2Model ----
(***************************************************************************)
(* The multiplayer server of kids_game: the Session Registry (GameState),  *)
(* the Player Session (PlayerSession), the connection map and broadcast    *)
(* loop (server index.ts), and the client's network adapter (Connection).  *)
(*                                                                         *)
(* The server runs on one event loop: every handler below is one atomic    *)
(* action.  A socket is modelled by its readyState as the server sees it:  *)
(*   OPEN     messages arrive, sends are written                           *)
(*   CLOSING  the server called ws.close() (handleJoin, line 86): the      *)
(*            closing handshake has started, sends are skipped, and what   *)
(*            the peer had in flight still reaches the 'message' handler   *)
(*            until the 'close' event                                      *)
(* The 'close' event removes the session, so a closed socket has no        *)
(* session object left.  `out` records the calls of PlayerSession.send of  *)
(* the last handler; each carries whether the socket write took place.     *)
(*                                                                         *)
(* Six specifications share the state:                                     *)
(*   Spec            the server with few connections and every message     *)
(*                   kind                                                  *)
(*   SpecFull        the server with more connections than MAX_PLAYERS     *)
(*   SpecProtocol    the server with two connections and every payload a   *)
(*                   peer may write: malformed, incomplete, unknown,       *)
(*                   signaling                                             *)
(*   SpecClient      one client adapter, its sockets, and what a server    *)
(*                   may send on them                                      *)
(*   SpecClientLive  the adapter's retry loop under fairness, without      *)
(*                   disconnect()                                          *)
(*   SpecRegistry    the operations of GameState called directly           *)
(***************************************************************************)
EXTENDS Integers, Sequences, FiniteSets, TLC

VARIABLES
    nextId,     \* number of connections accepted so far (ids are fresh: uuidv4)
    sessions,   \* index.ts `sessions`: id -> PlayerSession {name, joined, ws}
    players,    \* GameState.players: id -> player record
    nmsg,       \* number of messages handled beyond the join handshakes (bounded)
    out,        \* the PlayerSession.send calls of the last handler, in order
    last,       \* the last event handled: [op, id, msg, pre, st]; pre is the
                \* session as it was when the handler started, st the
                \* movement state of the record a close event removed
    hist,       \* id -> the latest position message handled for a joined
                \* session, and its latest position or swing message
    told,       \* id -> the identities announced to that session so far,
                \* by the list of its welcome or by a player_joined
                \* (protocol scenario)
    scenario,   \* which bounds this behaviour runs under (never changes)
    \* ---- the client's network adapter (class Connection) and its sockets
    ws,             \* Connection.ws: the index of a socket, or Null
    status,         \* Connection.status
    reconnectTimer, \* TRUE while Connection.reconnectTimer holds a pending timer
    timers,         \* the number of pending window.setTimeout callbacks
    myId,           \* Connection.myId, or Null
    sockets,        \* every WebSocket the adapter has created, in order:
                    \* [readyState, joinSent, peer, byCaller]; joinSent says
                    \* that a join message was written to it, peer is what the
                    \* server has answered on it ("new", "joined", "full"),
                    \* byCaller that disconnect() closed it
    calls,          \* the callbacks (ConnectionEvents) the last handler invoked
    remotePlayers,  \* main.ts `remotePlayers`: the identities that have a
                    \* RemotePlayer
    clast           \* the last client event: [op, socket, msg, pre]; pre is
                    \* the status and the timer field when the handler started

svars == <<nextId, sessions, players, nmsg, out, last, hist, told>>

cvars ==
    <<ws, status, reconnectTimer, timers, myId, sockets, calls, clast,
      remotePlayers>>

vars == <<svars, cvars, scenario>>

\* ---------------------------------------------------------------- bounds
MaxConn == 3        \* connections per behaviour, data scenario
MaxConnFull == 6    \* connections per behaviour, capacity scenario
MaxMsgs == 2        \* update messages per behaviour, data scenario
MaxMsgsFull == 1    \* update messages per behaviour, capacity scenario
MaxSockets == 3     \* sockets the adapter creates per behaviour
MaxConnProtocol == 2    \* connections per behaviour, protocol scenario
MaxMsgsProtocol == 2    \* update messages per behaviour, protocol scenario

ConnLimit ==
    IF scenario = "full" THEN MaxConnFull
    ELSE IF scenario = "protocol" THEN MaxConnProtocol
    ELSE MaxConn

MsgLimit ==
    IF scenario = "full" THEN MaxMsgsFull
    ELSE IF scenario = "protocol" THEN MaxMsgsProtocol
    ELSE MaxMsgs

\* ------------------------------------------------------------- constants
MAX_PLAYERS == 5

\* updateSettings: name.length <= 20
MAX_NAME_LENGTH == 20

\* undefined, for a name or a color
Undefined == "undefined"

\* undefined, for an attach point
UndefinedPoint == [undefined |-> TRUE]

\* null, for a socket reference and for an identity (identities start at 1)
Null == 0

colors ==
    <<"#ff4444", "#44ff44", "#4444ff", "#ffff44", "#ff44ff",
      "#44ffff", "#ff8800", "#8844ff", "#ff4488", "#44ff88">>

\* generateRandomColor: an entry of the palette; the model draws the first
RandomColors == { colors[1] }

Vec(x, y, z) == [x |-> x, y |-> y, z |-> z]

\* ---------------------------------------------------------------- inputs
NoMsg == [type |-> "none"]

NoSession == [name |-> "", joined |-> FALSE, ws |-> "NONE"]

\* a name of 21 characters
LongName == "abcdefghijklmnopqrstu"

JoinNames ==
    IF scenario = "full" THEN {"Al"}
    ELSE IF scenario = "protocol" THEN {"", LongName}
    ELSE {"", "Al"}

JoinInputs == { [type |-> "join", name |-> n] : n \in JoinNames }

\* in the protocol scenario the second message has no `state` field: reading
\* it gives undefined
PositionInputs ==
    IF scenario = "full"
    THEN { [type |-> "position", x |-> 1, y |-> 0, z |-> 2, rotationY |-> 0,
            state |-> "walking"] }
    ELSE IF scenario = "protocol"
    THEN { [type |-> "position", x |-> 1, y |-> 0, z |-> 2, rotationY |-> 0,
            state |-> "walking"],
           [type |-> "position", x |-> 3, y |-> 4, z |-> 3, rotationY |-> 1,
            state |-> Undefined] }
    ELSE { [type |-> "position", x |-> 1, y |-> 0, z |-> 2, rotationY |-> 0,
            state |-> "walking"],
           [type |-> "position", x |-> 3, y |-> 4, z |-> 3, rotationY |-> 1,
            state |-> "swinging"] }

SwingInputs ==
    IF scenario = "full"
    THEN { }
    ELSE IF scenario = "protocol"
    THEN { [type |-> "swing", active |-> TRUE, attachPoint |-> Vec(5, 10, 5)] }
    ELSE { [type |-> "swing", active |-> TRUE, attachPoint |-> Vec(5, 10, 5)],
           [type |-> "swing", active |-> FALSE, attachPoint |-> UndefinedPoint] }

SettingsInputs == { [type |-> "settings", name |-> "Bo", color |-> "#123456"] }

\* a payload JSON.parse throws on
Unparseable == [type |-> "unparseable"]

\* payloads that are no message: not JSON, or a type no case names
MalformedInputs ==
    IF scenario = "protocol" THEN { Unparseable, [type |-> "emote"] } ELSE { }

RtcTypes == {"rtc_offer", "rtc_answer", "rtc_ice"}

\* the signaling messages of the shared types, addressed to an identity
RtcInputs ==
    IF scenario = "protocol"
    THEN { [type |-> "rtc_offer", targetId |-> t, offer |-> "sdp"] :
               t \in 1..MaxConnProtocol }
         \cup { [type |-> "rtc_answer", targetId |-> t, answer |-> "sdp"] :
                    t \in 1..MaxConnProtocol }
         \cup { [type |-> "rtc_ice", targetId |-> t, candidate |-> "ice"] :
                    t \in 1..MaxConnProtocol }
    ELSE { }

\* ------------------------------------------------------------- GameState
\* (mutant) canJoin off by one
canJoinOffByOne == Cardinality(DOMAIN players) <= MAX_PLAYERS

canJoin == Cardinality(DOMAIN players) < MAX_PLAYERS

NewPlayer(id, name, color) ==
    [id |-> id, name |-> name, color |-> color,
     x |-> 0, y |-> 1, z |-> 0, rotationY |-> 0, state |-> "idle",
     swingAttachPoint |-> UndefinedPoint]

\* Map.set: adds the key, or replaces its value
MapSet(m, k, v) == [i \in (DOMAIN m) \cup {k} |-> IF i = k THEN v ELSE m[i]]

\* Map.delete
MapDelete(m, k) == [i \in (DOMAIN m) \ {k} |-> m[i]]

addPlayer(ps, id, name, color) == MapSet(ps, id, NewPlayer(id, name, color))

\* (mutant) removePlayer that leaves the record
removePlayerKeeps(ps, id) == ps

removePlayer(ps, id) == MapDelete(ps, id)

getPlayerList(ps) ==
    { [id |-> ps[i].id, name |-> ps[i].name, color |-> ps[i].color] :
        i \in DOMAIN ps }

\* (mutant) updatePosition that forgets the yaw
updatePositionNoYaw(ps, id, x, y, z, rotationY, state) ==
    IF id \in DOMAIN ps
    THEN [ps EXCEPT ![id].x = x, ![id].y = y, ![id].z = z, ![id].state = state]
    ELSE ps

\* (mutant) updatePosition that moves every record
updatePositionAll(ps, id, x, y, z, rotationY, state) ==
    IF id \in DOMAIN ps
    THEN [i \in DOMAIN ps |->
             [ps[i] EXCEPT !.x = x, !.y = y, !.z = z,
                           !.rotationY = rotationY, !.state = state]]
    ELSE ps

updatePosition(ps, id, x, y, z, rotationY, state) ==
    IF id \in DOMAIN ps
    THEN [ps EXCEPT ![id].x = x, ![id].y = y, ![id].z = z,
                    ![id].rotationY = rotationY, ![id].state = state]
    ELSE ps

\* (mutant) updateSwing that creates the record it does not find
updateSwingUpsert(ps, id, active, attachPoint) ==
    LET qs == IF id \in DOMAIN ps THEN ps
              ELSE MapSet(ps, id, NewPlayer(id, "Player", colors[1]))
    IN [qs EXCEPT ![id].state = IF active THEN "swinging" ELSE "idle",
                  ![id].swingAttachPoint =
                      IF active THEN attachPoint ELSE UndefinedPoint]

updateSwing(ps, id, active, attachPoint) ==
    IF id \in DOMAIN ps
    THEN [ps EXCEPT ![id].state = IF active THEN "swinging" ELSE "idle",
                    ![id].swingAttachPoint =
                        IF active THEN attachPoint ELSE UndefinedPoint]
    ELSE ps

\* updateSettings: name !== undefined && name.length > 0 && name.length <= 20
nameValid(name) ==
    /\ name # Undefined
    /\ Len(name) > 0
    /\ Len(name) <= MAX_NAME_LENGTH

HexDigits ==
    {"0", "1", "2", "3", "4", "5", "6", "7", "8", "9",
     "a", "b", "c", "d", "e", "f", "A", "B", "C", "D", "E", "F"}

\* updateSettings: color !== undefined && /^#[0-9a-fA-F]{6}$/.test(color)
colorValid(color) ==
    /\ color # Undefined
    /\ Len(color) = 7
    /\ SubSeq(color, 1, 1) = "#"
    /\ \A i \in 2..7 : SubSeq(color, i, i) \in HexDigits

\* (mutant) updateSettings that applies the two fields only together
updateSettingsBoth(ps, id, name, color) ==
    IF id \in DOMAIN ps /\ nameValid(name) /\ colorValid(color)
    THEN [ps EXCEPT ![id].name = name, ![id].color = color]
    ELSE ps

updateSettings(ps, id, name, color) ==
    IF id \in DOMAIN ps
    THEN [ps EXCEPT ![id].name = IF nameValid(name) THEN name ELSE @,
                    ![id].color = IF colorValid(color) THEN color ELSE @]
    ELSE ps

getAllPlayerData(ps) ==
    { [id |-> ps[i].id, name |-> ps[i].name, color |-> ps[i].color,
       x |-> ps[i].x, y |-> ps[i].y, z |-> ps[i].z,
       rotationY |-> ps[i].rotationY, state |-> ps[i].state,
       swingAttachPoint |-> ps[i].swingAttachPoint] : i \in DOMAIN ps }

\* --------------------------------------------------------- PlayerSession
NewSession == [name |-> "Player", joined |-> FALSE, ws |-> "OPEN"]

isJoined(ss, id) == ss[id].joined

\* PlayerSession.send: one call; the write happens only on an OPEN socket
send(ss, id, message) ==
    [to |-> id, msg |-> message, written |-> ss[id].ws = "OPEN"]

RECURSIVE Ascending(_)
\* the ids of a set in creation order (the iteration order of the Map)
Ascending(S) ==
    IF S = {} THEN <<>>
    ELSE LET m == CHOOSE a \in S : \A b \in S : a <= b
         IN <<m>> \o Ascending(S \ {m})

\* one send per id of S, in Map order
SendAll(ss, S, message) ==
    LET to == Ascending(S)
    IN [k \in 1..Len(to) |-> send(ss, to[k], message)]

\* (mutant) broadcast that does not look at isJoined
broadcastAll(ss, message, excludeId) ==
    SendAll(ss, { i \in DOMAIN ss : i # excludeId }, message)

\* index.ts broadcast: every joined session except excludeId
broadcast(ss, message, excludeId) ==
    SendAll(ss, { i \in DOMAIN ss : i # excludeId /\ isJoined(ss, i) }, message)

\* handleJoin: name || `Player ${id.slice(0, 4)}`
DefaultName(id) == "Player " \o ToString(id)

JoinName(id, name) == IF name # "" THEN name ELSE DefaultName(id)

\* (mutant) a welcome that lists nobody
welcomePlayersNone(ps, id) == { }

\* (mutant) a welcome that lists the joiner too
welcomePlayersAll(ps, id) == getPlayerList(ps)

\* handleJoin: the players of the welcome message
welcomePlayers(ps, id) == { p \in getPlayerList(ps) : p.id # id }

\* ws.close() on the server side
wsClose(st) == IF st = "OPEN" THEN "CLOSING" ELSE st

\* (mutant) a tick that sends to every connection
tickAll(ss, ps) ==
    IF DOMAIN ss = {}
    THEN << >>
    ELSE SendAll(ss, DOMAIN ss,
                 [type |-> "state", players |-> getAllPlayerData(ps)])

\* the broadcast tick: the sends of one tick
tick(ss, ps) ==
    IF DOMAIN ss = {}
    THEN << >>
    ELSE LET stateMessage == [type |-> "state", players |-> getAllPlayerData(ps)]
         IN SendAll(ss, { i \in DOMAIN ss : isJoined(ss, i) }, stateMessage)

\* the identities the sends `o` announce to session b
Announced(o, b) ==
    UNION { IF o[k].msg.type = "welcome"
            THEN { p.id : p \in o[k].msg.players }
            ELSE IF o[k].msg.type = "player_joined"
            THEN { o[k].msg.id }
            ELSE { } : k \in { j \in DOMAIN o : o[j].to = b } }

\* what each session of ss has been told once the sends `o` are made; the
\* record is kept in the protocol scenario, whose properties read it
Heard(t, ss, o) ==
    IF scenario # "protocol" THEN t
    ELSE [b \in DOMAIN ss |->
             (IF b \in DOMAIN t THEN t[b] ELSE { }) \cup Announced(o, b)]

\* ---------------------------------------------------------------- actions
ServerInit ==
    /\ nextId = 0
    /\ sessions = << >>
    /\ players = << >>
    /\ nmsg = 0
    /\ out = << >>
    /\ last = [op |-> "init", id |-> 0, msg |-> NoMsg, pre |-> NoSession,
             st |-> "none"]
    /\ hist = << >>
    /\ told = << >>

\* the fields of a Connection after its constructor
ClientInit ==
    /\ ws = Null
    /\ status = "disconnected"
    /\ reconnectTimer = FALSE
    /\ timers = 0
    /\ myId = Null
    /\ sockets = << >>
    /\ calls = << >>
    /\ clast = [op |-> "init", socket |-> Null, msg |-> NoMsg,
                pre |-> [status |-> "disconnected", timer |-> FALSE]]
    /\ remotePlayers = { }

InitIn(sc) == ServerInit /\ ClientInit /\ scenario = sc

Init == InitIn("data")

InitFull == InitIn("full")

InitClient == InitIn("client")

InitProtocol == InitIn("protocol")

\* wss.on('connection'): a new PlayerSession with a fresh id
Connection ==
    /\ nextId < ConnLimit
    /\ nextId' = nextId + 1
    /\ sessions' = MapSet(sessions, nextId + 1, NewSession)
    /\ out' = << >>
    /\ last' = [op |-> "connection", id |-> nextId + 1, msg |-> NoMsg,
                pre |-> NoSession, st |-> "none"]
    /\ told' = Heard(told, sessions', out')
    /\ UNCHANGED <<players, nmsg, hist, scenario, cvars>>

\* handleJoin
HandleJoin(s, name) ==
    IF sessions[s].joined
    THEN /\ out' = << >>
         /\ UNCHANGED <<sessions, players>>
    ELSE IF ~canJoin
    THEN /\ out' = << send(sessions, s, [type |-> "server_full"]) >>
         /\ sessions' = [sessions EXCEPT ![s].ws = wsClose(@)]
         /\ UNCHANGED players
    ELSE \E color \in RandomColors :
         LET nm == JoinName(s, name)
             ps == addPlayer(players, s, nm, color)
             ss == [sessions EXCEPT ![s].name = nm, ![s].joined = TRUE]
             welcome == [type |-> "welcome", yourId |-> s,
                         players |-> welcomePlayers(ps, s)]
             joinMsg == [type |-> "player_joined", id |-> s, name |-> nm]
         IN /\ players' = ps
            /\ sessions' = ss
            /\ out' = << send(ss, s, welcome) >> \o broadcast(ss, joinMsg, s)

\* (mutant) handleMessage that gives an unjoined sender a record
handleUpdateAdmits(ss, ps, s, m) ==
    IF ~ss[s].joined THEN addPlayer(ps, s, ss[s].name, colors[1])
    ELSE IF m.type = "position"
    THEN updatePosition(ps, s, m.x, m.y, m.z, m.rotationY, m.state)
    ELSE IF m.type = "swing"
    THEN updateSwing(ps, s, m.active, m.attachPoint)
    ELSE ps

\* (mutant) handleMessage that ends the player on a type it does not know
handleUpdateStrict(ss, ps, s, m) ==
    IF ~ss[s].joined THEN ps
    ELSE IF m.type = "position"
    THEN updatePosition(ps, s, m.x, m.y, m.z, m.rotationY, m.state)
    ELSE IF m.type = "swing"
    THEN updateSwing(ps, s, m.active, m.attachPoint)
    ELSE removePlayer(ps, s)

\* handleMessage, the cases 'position' and 'swing': the registry afterwards;
\* a message of any other type but join matches no case
handleUpdate(ss, ps, s, m) ==
    IF ~ss[s].joined THEN ps
    ELSE IF m.type = "position"
    THEN updatePosition(ps, s, m.x, m.y, m.z, m.rotationY, m.state)
    ELSE IF m.type = "swing"
    THEN updateSwing(ps, s, m.active, m.attachPoint)
    ELSE ps

\* a join handshake: the first join request of an open connection
FirstJoin(s) == ~sessions[s].joined /\ sessions[s].ws = "OPEN"

\* the messages beyond the handshakes are bounded in number; in the capacity
\* scenario they come from the latest connection
Extra(s) ==
    /\ nmsg < MsgLimit
    /\ scenario = "full" => s = nextId

\* ws.on('message') -> handleMessage
OnMessage(s, m) ==
    /\ s \in DOMAIN sessions
    /\ last' = [op |-> "message", id |-> s, msg |-> m, pre |-> sessions[s],
                st |-> "none"]
    /\ UNCHANGED <<nextId, scenario, cvars>>
    /\ CASE m = Unparseable ->    \* JSON.parse throws: the catch block logs
              /\ Extra(s)
              /\ nmsg' = nmsg + 1
              /\ out' = << >>
              /\ UNCHANGED <<sessions, players, hist>>
         [] m.type = "join" ->
              /\ FirstJoin(s) \/ Extra(s)
              /\ nmsg' = IF FirstJoin(s) THEN nmsg ELSE nmsg + 1
              /\ HandleJoin(s, m.name)
              /\ UNCHANGED hist
         [] m.type = "position" ->
              /\ Extra(s)
              /\ nmsg' = nmsg + 1
              /\ players' = handleUpdate(sessions, players, s, m)
              /\ hist' = IF sessions[s].joined
                         THEN MapSet(hist, s, [pos |-> m, move |-> m])
                         ELSE hist
              /\ out' = << >>
              /\ UNCHANGED sessions
         [] m.type = "swing" ->
              /\ Extra(s)
              /\ nmsg' = nmsg + 1
              /\ players' = handleUpdate(sessions, players, s, m)
              /\ hist' = IF sessions[s].joined /\ s \in DOMAIN hist
                         THEN [hist EXCEPT ![s].move = m]
                         ELSE hist
              /\ out' = << >>
              /\ UNCHANGED sessions
         [] OTHER ->    \* no case of the switch: the message is dropped
              /\ Extra(s)
              /\ nmsg' = nmsg + 1
              /\ players' = handleUpdate(sessions, players, s, m)
              /\ out' = << >>
              /\ UNCHANGED <<sessions, hist>>
    /\ told' = Heard(told, sessions', out')

\* ws.on('close') -> handleDisconnect -> index.ts handleDisconnect
OnClose(s) ==
    /\ s \in DOMAIN sessions
    /\ IF sessions[s].joined
       THEN /\ players' = removePlayer(players, s)
            /\ out' = broadcast(sessions, [type |-> "player_left", id |-> s], s)
       ELSE /\ out' = << >>
            /\ UNCHANGED players
    /\ sessions' = MapDelete(sessions, s)
    /\ hist' = MapDelete(hist, s)
    /\ last' = [op |-> "close", id |-> s, msg |-> NoMsg, pre |-> sessions[s],
                st |-> IF s \in DOMAIN players THEN players[s].state ELSE "none"]
    /\ told' = Heard(told, sessions', out')
    /\ UNCHANGED <<nextId, nmsg, scenario, cvars>>

\* setInterval: the broadcast tick
Tick ==
    /\ out' = tick(sessions, players)
    /\ last' = [op |-> "tick", id |-> 0, msg |-> NoMsg, pre |-> NoSession,
             st |-> "none"]
    /\ UNCHANGED <<nextId, sessions, players, nmsg, hist, scenario, cvars>>
    /\ told' = Heard(told, sessions', out')

ClientInputs ==
    JoinInputs \cup PositionInputs \cup SwingInputs \cup SettingsInputs
        \cup MalformedInputs \cup RtcInputs

Next ==
    \/ Connection
    \/ \E s \in DOMAIN sessions, m \in ClientInputs : OnMessage(s, m)
    \/ \E s \in DOMAIN sessions : OnClose(s)
    \/ Tick

Spec == Init /\ [][Next]_vars

SpecFull == InitFull /\ [][Next]_vars

SpecProtocol == InitProtocol /\ [][Next]_vars

\* ============================================ client adapter (Connection)
\* The browser runs the adapter on one event loop: each socket event handler
\* and each call of the adapter's interface is one atomic action.  A browser
\* WebSocket delivers message events only while its readyState is OPEN, and
\* its close event once, when it becomes CLOSED.  The handlers of a socket
\* stay attached when Connection.ws moves on to another socket.

\* the identity the server assigns to the connection of socket k (fresh per
\* connection)
AssignedId(k) == k

\* the identity of a player who is not this client
OtherId == MaxSockets + 1

NewSocket ==
    [readyState |-> "CONNECTING", joinSent |-> FALSE, peer |-> "new",
     byCaller |-> FALSE]

\* the last client event, with the status and timer field it started from
Event(op, k, m) ==
    [op |-> op, socket |-> k, msg |-> m,
     pre |-> [status |-> status, timer |-> reconnectTimer]]

RECURSIVE Registry(_)
\* a registry that holds a record for each identity of S
Registry(S) ==
    IF S = {} THEN << >>
    ELSE LET i == CHOOSE a \in S : TRUE
         IN addPlayer(Registry(S \ {i}), i, DefaultName(i), colors[1])

\* what the server may send on socket k: to an unjoined session that asked
\* to join a welcome or server_full, to a joined session the notifications
\* and the state of a registry that holds its own record
ServerMessages(k) ==
    IF sockets[k].peer = "new" /\ sockets[k].joinSent
    THEN { [type |-> "welcome", yourId |-> AssignedId(k),
            players |-> welcomePlayers(Registry(S \cup {AssignedId(k)}),
                                       AssignedId(k))] : S \in SUBSET {OtherId} }
         \cup { [type |-> "server_full"] }
    ELSE IF sockets[k].peer = "joined"
    THEN { [type |-> "state",
            players |-> getAllPlayerData(Registry(S \cup {AssignedId(k)}))] :
                S \in SUBSET {OtherId} }
         \cup { [type |-> "player_joined", id |-> OtherId,
                 name |-> DefaultName(OtherId)],
                [type |-> "player_left", id |-> OtherId] }
    ELSE { }

\* setStatus: the callback it invokes, if any
setStatus(st) ==
    IF status # st THEN << [name |-> "onStatusChange", status |-> st] >>
    ELSE << >>

\* handleMessage, case 'state': the list passed to onGameState
otherPlayers(ps, id) == { p \in ps : p.id # id }

\* the socket Connection.send would write to, or Null
sendTarget(w, socks) ==
    IF w # Null /\ socks[w].readyState = "OPEN" THEN w ELSE Null

\* main.ts addRemotePlayer: nothing happens when the identity has one
addRemotePlayer(rp, id) == IF id \in rp THEN rp ELSE rp \cup {id}

\* main.ts removeRemotePlayer
removeRemotePlayer(rp, id) == IF id \in rp THEN rp \ {id} ELSE rp

RECURSIVE onWelcome(_, _)
\* main.ts onWelcome: addRemotePlayer for each listed player
onWelcome(rp, existingPlayers) ==
    IF existingPlayers = { } THEN rp
    ELSE LET p == CHOOSE q \in existingPlayers : TRUE
         IN onWelcome(addRemotePlayer(rp, p.id), existingPlayers \ {p})

\* main.ts onPlayerJoined
onPlayerJoined(rp, id) == addRemotePlayer(rp, id)

\* main.ts onPlayerLeft
onPlayerLeft(rp, id) == IF id \in rp THEN removeRemotePlayer(rp, id) ELSE rp

\* main.ts onGameState: updateFromData for the entries that have a
\* RemotePlayer; the others are skipped
onGameState(rp, ps) == rp

\* (mutant) connect that does not announce the attempt
connectKeepsStatus ==
    IF ws # Null /\ sockets[ws].readyState = "OPEN"
    THEN /\ calls' = << >>
         /\ UNCHANGED <<ws, status, sockets>>
    ELSE /\ Len(sockets) < MaxSockets
         /\ calls' = << >>
         /\ sockets' = Append(sockets, NewSocket)
         /\ ws' = Len(sockets) + 1
         /\ UNCHANGED status

\* connect(playerName); the WebSocket constructor does not throw for the
\* fixed server URL, so the catch branch is never taken
connect ==
    IF ws # Null /\ sockets[ws].readyState = "OPEN"
    THEN /\ calls' = << >>
         /\ UNCHANGED <<ws, status, sockets>>
    ELSE /\ Len(sockets) < MaxSockets
         /\ status' = "connecting"
         /\ calls' = setStatus("connecting")
         /\ sockets' = Append(sockets, NewSocket)
         /\ ws' = Len(sockets) + 1

\* (mutant) scheduleReconnect that arms nothing
scheduleReconnectNever == UNCHANGED <<reconnectTimer, timers>>

\* (mutant) scheduleReconnect without the guard on a pending timer
scheduleReconnectAlways ==
    /\ reconnectTimer' = TRUE
    /\ timers' = timers + 1

\* scheduleReconnect: arms the timer unless one is pending
scheduleReconnect ==
    IF reconnectTimer
    THEN UNCHANGED <<reconnectTimer, timers>>
    ELSE /\ reconnectTimer' = TRUE
         /\ timers' = timers + 1

\* the caller invokes connect(playerName)
CallConnect ==
    /\ connect
    /\ clast' = Event("connect", Null, NoMsg)
    /\ UNCHANGED <<reconnectTimer, timers, myId, remotePlayers, svars,
                   scenario>>

\* a pending timeout fires: the callback of scheduleReconnect
TimerFires ==
    /\ timers > 0
    /\ timers' = timers - 1
    /\ reconnectTimer' = FALSE
    /\ connect
    /\ clast' = Event("timer", Null, NoMsg)
    /\ UNCHANGED <<myId, remotePlayers, svars, scenario>>

\* ws.onopen of socket k: send the join message
SocketOpen(k) ==
    /\ sockets[k].readyState = "CONNECTING"
    /\ LET opened == [sockets EXCEPT ![k].readyState = "OPEN"]
           to == sendTarget(ws, opened)
       IN sockets' = IF to # Null THEN [opened EXCEPT ![to].joinSent = TRUE]
                     ELSE opened
    /\ calls' = << >>
    /\ clast' = Event("open", k, NoMsg)
    /\ UNCHANGED <<ws, status, reconnectTimer, timers, myId, remotePlayers,
                   svars, scenario>>

\* ws.onmessage of socket k -> handleMessage
SocketMessage(k, m) ==
    /\ sockets[k].readyState = "OPEN"
    /\ m \in ServerMessages(k)
    /\ clast' = Event("message", k, m)
    /\ UNCHANGED <<ws, reconnectTimer, timers, svars, scenario>>
    /\ CASE m.type = "welcome" ->
              /\ myId' = m.yourId
              /\ status' = "connected"
              /\ calls' = setStatus("connected")
                            \o << [name |-> "onWelcome", yourId |-> m.yourId,
                                   players |-> m.players] >>
              /\ sockets' = [sockets EXCEPT ![k].peer = "joined"]
              /\ remotePlayers' = onWelcome(remotePlayers, m.players)
         [] m.type = "player_joined" ->
              /\ calls' = << [name |-> "onPlayerJoined", id |-> m.id,
                              name2 |-> m.name] >>
              /\ remotePlayers' = onPlayerJoined(remotePlayers, m.id)
              /\ UNCHANGED <<myId, status, sockets>>
         [] m.type = "player_left" ->
              /\ calls' = << [name |-> "onPlayerLeft", id |-> m.id] >>
              /\ remotePlayers' = onPlayerLeft(remotePlayers, m.id)
              /\ UNCHANGED <<myId, status, sockets>>
         [] m.type = "state" ->
              /\ calls' = << [name |-> "onGameState",
                              players |-> otherPlayers(m.players, myId)] >>
              /\ remotePlayers' =
                     onGameState(remotePlayers, otherPlayers(m.players, myId))
              /\ UNCHANGED <<myId, status, sockets>>
         [] m.type = "server_full" ->
              /\ status' = "full"
              /\ calls' = setStatus("full")
              /\ sockets' = [sockets EXCEPT ![k].peer = "full"]
              /\ UNCHANGED <<myId, remotePlayers>>

\* ws.onclose of socket k: the connection failed, the server or the network
\* closed it, or the closing handshake that close() began has ended
SocketClose(k) ==
    /\ sockets[k].readyState # "CLOSED"
    /\ sockets' = [sockets EXCEPT ![k].readyState = "CLOSED"]
    /\ status' = "disconnected"
    /\ calls' = setStatus("disconnected")
    /\ myId' = Null
    /\ scheduleReconnect
    /\ clast' = Event("close", k, NoMsg)
    /\ UNCHANGED <<ws, remotePlayers, svars, scenario>>

\* WebSocket.close()
close(st) == IF st \in {"CONNECTING", "OPEN"} THEN "CLOSING" ELSE st

\* the caller invokes disconnect(); clearTimeout removes the pending timeout
Disconnect ==
    /\ reconnectTimer' = FALSE
    /\ timers' = IF reconnectTimer THEN timers - 1 ELSE timers
    /\ sockets' = IF ws # Null
                  THEN [sockets EXCEPT ![ws].readyState = close(@),
                                       ![ws].byCaller = TRUE]
                  ELSE sockets
    /\ ws' = Null
    /\ status' = "disconnected"
    /\ calls' = setStatus("disconnected")
    /\ myId' = Null
    /\ clast' = Event("disconnect", Null, NoMsg)
    /\ UNCHANGED <<remotePlayers, svars, scenario>>

ServerMessagesAll == UNION { ServerMessages(k) : k \in DOMAIN sockets }

NextClient ==
    \/ CallConnect
    \/ TimerFires
    \/ \E k \in DOMAIN sockets : SocketOpen(k)
    \/ \E k \in DOMAIN sockets, m \in ServerMessagesAll :
          SocketMessage(k, m)
    \/ \E k \in DOMAIN sockets : SocketClose(k)
    \/ Disconnect

SpecClient == InitClient /\ [][NextClient]_vars

\* ==================================== the registry (GameState) by itself
\* The operations of GameState called directly, with identities that have a
\* record and identities that have none.
InitRegistry == InitIn("registry")

\* two identities: each may have a record or none
RegIds == {1, 2}

NameInputs == {Undefined, "", "Bob", LongName}

ColorInputs == {Undefined, "not-a-color", "#12aBcF", "#12345", "#12345g"}

\* the last call; `st` is the movement state of the record addPlayer found
Call(op, id, m) ==
    [op |-> op, id |-> id, msg |-> m, pre |-> NoSession, st |-> "none"]

RegAddPlayer(id) ==
    /\ \E color \in RandomColors :
          players' = addPlayer(players, id, DefaultName(id), color)
    /\ last' = [Call("addPlayer", id, NoMsg) EXCEPT
                    !.st = IF id \in DOMAIN players THEN players[id].state
                           ELSE "none"]
    /\ UNCHANGED <<nextId, sessions, nmsg, out, hist, told, scenario, cvars>>

RegRemovePlayer(id) ==
    /\ players' = removePlayer(players, id)
    /\ last' = Call("removePlayer", id, NoMsg)
    /\ UNCHANGED <<nextId, sessions, nmsg, out, hist, told, scenario, cvars>>

RegUpdatePosition(id, m) ==
    /\ players' = updatePosition(players, id, m.x, m.y, m.z, m.rotationY,
                                 m.state)
    /\ last' = Call("updatePosition", id, m)
    /\ UNCHANGED <<nextId, sessions, nmsg, out, hist, told, scenario, cvars>>

RegUpdateSwing(id, m) ==
    /\ players' = updateSwing(players, id, m.active, m.attachPoint)
    /\ last' = Call("updateSwing", id, m)
    /\ UNCHANGED <<nextId, sessions, nmsg, out, hist, told, scenario, cvars>>

RegUpdateSettings(id, name, color) ==
    /\ players' = updateSettings(players, id, name, color)
    /\ last' = Call("updateSettings", id,
                    [type |-> "settings", name |-> name, color |-> color])
    /\ UNCHANGED <<nextId, sessions, nmsg, out, hist, told, scenario, cvars>>

NextRegistry ==
    \/ \E id \in RegIds : RegAddPlayer(id)
    \/ \E id \in RegIds : RegRemovePlayer(id)
    \/ \E id \in RegIds, m \in PositionInputs : RegUpdatePosition(id, m)
    \/ \E id \in RegIds, m \in SwingInputs : RegUpdateSwing(id, m)
    \/ \E id \in RegIds, name \in NameInputs, color \in ColorInputs :
          RegUpdateSettings(id, name, color)

SpecRegistry == InitRegistry /\ [][NextRegistry]_vars

\* ------------------------------------------- the retry loop, with fairness
\* The caller never calls disconnect().  Connections may fail and the server
\* may be full until the adapter has created its last socket (the sockets
\* per behaviour are bounded); from then on the server accepts connections
\* and has a free slot.
InitLive == InitIn("live")

Failing == Len(sockets) < MaxSockets

\* a message event; server_full only while the server may be full
LiveMessage(k, m) ==
    /\ m.type = "server_full" => Failing
    /\ SocketMessage(k, m)

\* the welcome that answers the join request of socket k
LiveWelcome(k) ==
    \E m \in ServerMessages(k) : m.type = "welcome" /\ SocketMessage(k, m)

\* a close event: of a connection the server refused, or a failure
LiveClose(k) ==
    /\ sockets[k].peer = "full" \/ Failing
    /\ SocketClose(k)

\* the close event of a connection the server refused
RefusedClose(k) == sockets[k].peer = "full" /\ SocketClose(k)

NextLive ==
    \/ CallConnect
    \/ TimerFires
    \/ \E k \in DOMAIN sockets : SocketOpen(k)
    \/ \E k \in DOMAIN sockets, m \in ServerMessagesAll : LiveMessage(k, m)
    \/ \E k \in DOMAIN sockets : LiveClose(k)

\* timers fire and the browser delivers the events of its sockets
SpecClientLive ==
    /\ InitLive
    /\ [][NextLive]_vars
    /\ WF_vars(TimerFires)
    /\ WF_vars(\E k \in DOMAIN sockets : SocketOpen(k))
    /\ WF_vars(\E k \in DOMAIN sockets : LiveWelcome(k))
    /\ WF_vars(\E k \in DOMAIN sockets : RefusedClose(k))

\* ======================================================== server claims
Joined == { s \in DOMAIN sessions : sessions[s].joined }

\* the sends of the last handler that carry a message of this type
SentIdx(type) == { k \in 1..Len(out) : out[k].msg.type = type }

Recipients(type) == { out[k].to : k \in SentIdx(type) }

CountTo(s, type) == Cardinality({ k \in SentIdx(type) : out[k].to = s })

\* the last handler was a join request of a session that was not joined ...
JoinRequest ==
    /\ last.op = "message"
    /\ last.msg.type = "join"
    /\ ~last.pre.joined

\* ... which succeeded
JoinedNow == JoinRequest /\ sessions[last.id].joined

\* ... which was refused
Refused == JoinRequest /\ ~sessions[last.id].joined

\* the last handler was the close event of a joined session
LeftNow == last.op = "close" /\ last.pre.joined

Summary(p) == [id |-> p.id, name |-> p.name, color |-> p.color]

\* C1: in every reachable state the registry holds at most MAX_PLAYERS = 5
\* records.
C1_AtMostMaxPlayers == Cardinality(DOMAIN players) <= MAX_PLAYERS

\* a join request has just been refused with the registry full
C1_Witness == Refused /\ Cardinality(DOMAIN players) = MAX_PLAYERS

\* C2: a join request of a not-yet-joined session at capacity sends that
\* session exactly one server_full and closes its connection, leaves the
\* registry as it is, the session never becomes joined, and no welcome,
\* player_joined or player_left results, also not at its close event.
C2_RefusedIsTerminal ==
    /\ Refused =>
         /\ Len(out) = 1
         /\ out[1].to = last.id
         /\ out[1].msg.type = "server_full"
         /\ sessions[last.id].ws # "OPEN"
         /\ Cardinality(DOMAIN players) = MAX_PLAYERS
         /\ last.id \notin DOMAIN players
    /\ \A s \in DOMAIN sessions :
         sessions[s].ws = "CLOSING" => ~sessions[s].joined
    /\ (last.op = "close" /\ last.pre.ws = "CLOSING") => out = << >>

\* C3: the identities with a record are exactly the live sessions that have
\* joined; unjoined, refused and closed sessions have no record.
C3_RecordIffJoined ==
    /\ DOMAIN players = Joined
    /\ \A s \in DOMAIN sessions :
         (~sessions[s].joined \/ sessions[s].ws = "CLOSING")
            => s \notin DOMAIN players
    /\ DOMAIN players \subseteq DOMAIN sessions

\* C4: a successful join sends the joiner exactly one welcome, with yourId
\* its own identity and players the summaries of exactly the other joined
\* players.
C4_Welcome ==
    JoinedNow =>
        /\ Recipients("welcome") = { last.id }
        /\ CountTo(last.id, "welcome") = 1
        /\ \A k \in SentIdx("welcome") :
             /\ out[k].msg.yourId = last.id
             /\ out[k].msg.players =
                    { Summary(players[j]) : j \in Joined \ { last.id } }

\* a join whose welcome lists somebody
C4_Witness ==
    /\ JoinedNow
    /\ \E k \in SentIdx("welcome") : out[k].msg.players # {}

\* C5: a successful join of A sends player_joined naming A to every other
\* joined session, once each, and to nobody else.
C5_PlayerJoined ==
    JoinedNow =>
        /\ Recipients("player_joined") = Joined \ { last.id }
        /\ \A j \in Joined \ { last.id } : CountTo(j, "player_joined") = 1
        /\ \A k \in SentIdx("player_joined") :
             /\ out[k].msg.id = last.id
             /\ out[k].msg.name = sessions[last.id].name

\* a join that is announced to a joined session while another connection
\* has not joined
C5_Witness ==
    /\ JoinedNow
    /\ Recipients("player_joined") # {}
    /\ \E u \in DOMAIN sessions : ~sessions[u].joined

\* C6: the close of a joined session A removes A's record and sends
\* player_left naming A to every remaining joined session, and no state
\* message of a tick has an entry for a closed connection.
C6_Leave ==
    /\ LeftNow =>
         /\ last.id \notin DOMAIN players
         /\ Recipients("player_left") = Joined
         /\ \A j \in Joined : CountTo(j, "player_left") = 1
         /\ \A k \in SentIdx("player_left") : out[k].msg.id = last.id
    /\ \A k \in SentIdx("state") :
         \A e \in out[k].msg.players : e.id \in DOMAIN sessions

\* a session that was swinging has closed and somebody was told
C6_Witness ==
    /\ LeftNow
    /\ last.st = "swinging"
    /\ Recipients("player_left") # {}

\* C7: a tick sends a state message to exactly the joined sessions, one
\* each, and nothing else.
C7_TickRecipients ==
    last.op = "tick" =>
        /\ Recipients("state") = Joined
        /\ \A j \in Joined : CountTo(j, "state") = 1
        /\ Len(out) = Cardinality(Joined)

\* a tick with a joined session and a connection that has not joined
C7_Witness ==
    /\ last.op = "tick"
    /\ Joined # {}
    /\ \E u \in DOMAIN sessions : ~sessions[u].joined

Entry(p) ==
    [id |-> p.id, name |-> p.name, color |-> p.color, x |-> p.x, y |-> p.y,
     z |-> p.z, rotationY |-> p.rotationY, state |-> p.state,
     swingAttachPoint |-> p.swingAttachPoint]

\* C8: the state messages of one tick carry the same data: one entry per
\* record, holding the record's fields, each for a joined identity and none
\* for a connection that has not joined or was refused.
C8_TickData ==
    last.op = "tick" =>
        \A k \in SentIdx("state") :
            LET d == out[k].msg.players
            IN /\ \A k2 \in SentIdx("state") : out[k2].msg.players = d
               /\ \A i \in DOMAIN players :
                    { e \in d : e.id = i } = { Entry(players[i]) }
               /\ \A e \in d :
                    /\ e.id \in Joined
                    /\ sessions[e.id].ws # "CLOSING"

\* the movement state a position or swing message leaves behind
StateAfter(m) ==
    IF m.type = "position" THEN m.state
    ELSE IF m.active THEN "swinging" ELSE "idle"

\* an entry for a whose position and yaw are those of a's latest position
\* message, and whose movement state is st
EntryFor(d, a, st) ==
    \E e \in d :
        /\ e.id = a
        /\ e.x = hist[a].pos.x /\ e.y = hist[a].pos.y /\ e.z = hist[a].pos.z
        /\ e.rotationY = hist[a].pos.rotationY
        /\ e.state = st

\* C9 as stated: after a position message of joined A, every state message
\* of the next tick has an entry for A with the position, yaw and movement
\* state of A's latest position message.
C9_Original ==
    last.op = "tick" =>
        \A a \in DOMAIN hist : \A k \in SentIdx("state") :
            EntryFor(out[k].msg.players, a, hist[a].pos.state)

\* C9 amended: ... with the position and yaw of A's latest position message
\* and the movement state left by A's latest position or swing message.
C9_Amended ==
    last.op = "tick" =>
        \A a \in DOMAIN hist : \A k \in SentIdx("state") :
            EntryFor(out[k].msg.players, a, StateAfter(hist[a].move))

\* a tick to two sessions after a position and then a swing message
C9_Witness ==
    /\ last.op = "tick"
    /\ Cardinality(Recipients("state")) >= 2
    /\ \E a \in DOMAIN hist : hist[a].move.type = "swing"

\* the settings calls whose name the claim calls valid: given, not empty,
\* at most 20 characters
NameAccepted(name) == name \in {"Bo", "Bob"}

\* the settings calls whose color is # and six hex digits
ColorAccepted(color) == color \in {"#12aBcF", "#123456"}

\* the last handler was a position, swing or settings message
UpdateNow ==
    /\ last.op = "message"
    /\ last.msg.type \in {"position", "swing", "settings"}

\* C16: a position, swing or settings message of a session that has not
\* joined leaves the registry as it is, sends nothing, and leaves the
\* session as it was: connected, unjoined, its socket untouched.
C16_UnjoinedUpdateDropped ==
    [][(UpdateNow' /\ ~last'.pre.joined) =>
          /\ players' = players
          /\ out' = << >>
          /\ sessions' = sessions
          /\ sessions'[last'.id] = last'.pre]_vars

\* an open, unjoined session has sent a position message while another
\* session is joined
C16_Witness ==
    /\ UpdateNow
    /\ last.msg.type = "position"
    /\ ~last.pre.joined
    /\ last.pre.ws = "OPEN"
    /\ FirstJoin(last.id)
    /\ Joined # {}

\* C17: a settings message of a joined session replaces the name of its
\* record when the given name is valid and the color when the given color
\* is valid.
C17_SettingsApplied ==
    (UpdateNow /\ last.msg.type = "settings" /\ last.pre.joined) =>
        /\ NameAccepted(last.msg.name) =>
              players[last.id].name = last.msg.name
        /\ ColorAccepted(last.msg.color) =>
              players[last.id].color = last.msg.color

\* a record or a state entry has an attach point
HasAttachPoint(p) == p.swingAttachPoint # UndefinedPoint

\* C20: in every registry record and every entry of a state message the
\* attach point is present exactly when the movement state is swinging.
C20_AttachIffSwinging ==
    /\ \A i \in DOMAIN players :
          HasAttachPoint(players[i]) <=> players[i].state = "swinging"
    /\ \A k \in SentIdx("state") : \A e \in out[k].msg.players :
          HasAttachPoint(e) <=> e.state = "swinging"

\* ====================================================== protocol claims
\* the last handler was a message event with a payload that is no message
MalformedNow == last.op = "message" /\ last.msg \in MalformedInputs

\* C21: a payload that cannot be parsed, or a message of a type no case
\* names, is dropped: the registry, every session (its connection and its
\* protocol state) and the position history stay as they are and nothing is
\* sent.
C21_MalformedDropped ==
    [][(last'.op = "message" /\ last'.msg \in MalformedInputs) =>
          /\ players' = players
          /\ sessions' = sessions
          /\ hist' = hist
          /\ told' = told
          /\ out' = << >>]_vars

\* a joined session has sent a payload that JSON.parse throws on, while
\* another session is joined and has moved
C21_Witness ==
    /\ MalformedNow
    /\ last.msg = Unparseable
    /\ last.pre.joined
    /\ sessions[last.id].joined
    /\ \E j \in Joined \ {last.id} : players[j].state = "walking"

\* C22: a position message without its `state` field from a joined session
\* is dropped: the record of the sender keeps a defined movement state, and
\* no entry of a state message has an undefined one.
C22_IncompleteDropped ==
    /\ \A i \in DOMAIN players : players[i].state # Undefined
    /\ \A k \in SentIdx("state") : \A e \in out[k].msg.players :
          e.state # Undefined

\* C23: a signaling message (rtc_offer, rtc_answer, rtc_ice) of a joined
\* session that names a joined target results in exactly one message of the
\* same type, sent to the target only, with fromId the sender.
C23_RtcRelayed ==
    (/\ last.op = "message"
     /\ last.msg.type \in RtcTypes
     /\ last.pre.joined
     /\ last.msg.targetId \in Joined) =>
        /\ Len(out) = 1
        /\ out[1].to = last.msg.targetId
        /\ out[1].msg.type = last.msg.type
        /\ out[1].msg.fromId = last.id

\* C25: the name of every registry record is not empty and at most
\* MAX_NAME_LENGTH = 20 characters long.
C25_NameBounded ==
    \A i \in DOMAIN players :
        /\ Len(players[i].name) >= 1
        /\ Len(players[i].name) <= MAX_NAME_LENGTH

\* C27: a message event or a close event of a session changes no registry
\* record but the one of that session: every other record stays as it is,
\* none appears and none goes.
C27_OwnRecordOnly ==
    [][(last'.op \in {"message", "close"}) =>
          \A j \in (DOMAIN players \cup DOMAIN players') \ {last'.id} :
              /\ j \in DOMAIN players
              /\ j \in DOMAIN players'
              /\ players'[j] = players[j]]_vars

\* a joined session has moved while another session had a record, which
\* still has its starting position
C27_Witness ==
    /\ last.op = "message"
    /\ last.msg.type = "position"
    /\ last.pre.joined
    /\ players[last.id].x = last.msg.x
    /\ \E j \in DOMAIN players \ {last.id} : players[j].x = 0

\* C28: every entry of a state message sent to a session B, but the one of
\* B itself, is of an identity that a welcome or a player_joined sent to B
\* has announced before; and the entries of a state message are exactly the
\* joined sessions.
C28_AnnouncedBeforeState ==
    \A k \in SentIdx("state") :
        /\ \A e \in out[k].msg.players :
              e.id # out[k].to => e.id \in told[out[k].to]
        /\ { e.id : e \in out[k].msg.players } = Joined

\* a tick has sent the first session an entry of the second, announced by
\* player_joined, and the second session one of the first, announced by
\* its welcome
C28_Witness ==
    /\ last.op = "tick"
    /\ Joined = {1, 2}
    /\ told[1] = {2}
    /\ told[2] = {1}
    /\ Recipients("state") = {1, 2}

\* ======================================================== client claims
\* C10: for every state message the adapter receives, the list passed to
\* onGameState has no entry with the identity the server assigned to this
\* client's connection, and has every other entry of the message.
C10_OwnEntryFiltered ==
    (clast.op = "message" /\ clast.msg.type = "state") =>
        calls = << [name |-> "onGameState",
                    players |-> { p \in clast.msg.players :
                                    p.id # AssignedId(clast.socket) }] >>

\* the last client event was the close event of socket clast.socket
ClosedNow == clast.op = "close"

\* C11: after server_full the status stays full and no reconnect timer is
\* armed, also when the server closes the refused connection.
C11_FullStays ==
    (/\ ClosedNow
     /\ clast.socket = ws
     /\ sockets[clast.socket].peer = "full"
     /\ clast.pre.status = "full"
     /\ ~clast.pre.timer)
        => (status = "full" /\ ~reconnectTimer /\ timers = 0)

\* C12: disconnect() cancels the pending timer and leaves the status
\* disconnected, and the close event of the socket it closed arms no
\* reconnect timer.
C12_DisconnectIsFinal ==
    /\ clast.op = "disconnect" =>
         (status = "disconnected" /\ ~reconnectTimer /\ timers = 0)
    /\ (ClosedNow /\ sockets[clast.socket].byCaller /\ ~clast.pre.timer)
         => (~reconnectTimer /\ timers = 0)

\* C13: a close event of a socket that disconnect() did not close leaves
\* the status disconnected and one reconnect timer pending; at most one
\* timeout is pending in every state.
C13_OneReconnect ==
    /\ timers <= 1
    /\ reconnectTimer <=> timers = 1
    /\ (ClosedNow /\ ~sockets[clast.socket].byCaller)
         => (status = "disconnected" /\ reconnectTimer /\ timers = 1)

\* a socket closes while the timer armed by an earlier close is pending
C13_Witness ==
    /\ ClosedNow
    /\ ~sockets[clast.socket].byCaller
    /\ clast.pre.timer

\* the last client event was a welcome message
WelcomedNow == clast.op = "message" /\ clast.msg.type = "welcome"

C14_EventuallyConnected == <>(Len(sockets) > 0) => <>(status = "connected")

\* a retry has connected after an earlier socket failed
C14_Witness ==
    /\ scenario = "live"
    /\ status = "connected"
    /\ Len(sockets) >= 2
    /\ sockets[1].readyState = "CLOSED"
    /\ clast.op = "message"

\* the last handler was a message event of this type
Received(type) == clast.op = "message" /\ clast.msg.type = type

\* C26: a RemotePlayer for X exists once a player_joined for X, a welcome
\* that lists X, or a state snapshot with an entry for X has been handled,
\* and none exists once a player_left for X has been handled.
C26_RemoteLifecycle ==
    /\ Received("player_joined") => clast.msg.id \in remotePlayers
    /\ Received("welcome") =>
          \A p \in clast.msg.players : p.id \in remotePlayers
    /\ Received("state") =>
          \A p \in calls[1].players : p.id \in remotePlayers
    /\ Received("player_left") => clast.msg.id \notin remotePlayers

\* C29: when the welcome of the current socket has been handled, the remote
\* players are exactly the players the server has listed in it: a player who
\* left while the client was disconnected is not among them.
C29_RemoteMatchesServer ==
    (Received("welcome") /\ clast.socket = ws) =>
        remotePlayers = { p.id : p \in clast.msg.players }

\* the sockets that are connecting or open
Live == { k \in DOMAIN sockets : sockets[k].readyState \in {"CONNECTING", "OPEN"} }

\* C30: an open, message or close event of a socket that is not the current
\* one (and was not closed by disconnect()) leaves the status and the
\* reconnect timer as they were; while the current socket is open and
\* welcomed the status is connected and the identity the one of its
\* welcome; at most one socket is connecting or open.
C30_CurrentSocketOnly ==
    /\ (/\ clast.op \in {"open", "message", "close"}
        /\ ws # Null
        /\ clast.socket # ws
        /\ ~sockets[clast.socket].byCaller) =>
           /\ status = clast.pre.status
           /\ reconnectTimer = clast.pre.timer
    /\ (/\ ws # Null
        /\ sockets[ws].readyState = "OPEN"
        /\ sockets[ws].peer = "joined") =>
           /\ status = "connected"
           /\ myId = AssignedId(ws)
    /\ Cardinality(Live) <= 1

\* ====================================================== registry claims
\* C24: addPlayer for an identity that has a record is a no-op: the record
\* keeps its movement state and the identities with a record are the same.
C24_AddIsNoOp ==
    (last.op = "addPlayer" /\ last.st # "none") =>
        /\ last.id \in DOMAIN players
        /\ players[last.id].state = last.st

\* the fields updateSettings must not touch
Motion(p) ==
    [x |-> p.x, y |-> p.y, z |-> p.z, rotationY |-> p.rotationY,
     state |-> p.state, swingAttachPoint |-> p.swingAttachPoint]

\* C18: for an identity with a record, updateSettings replaces the name
\* exactly when the given name is valid and the color exactly when the
\* given color is valid, each whatever the other is, and changes neither
\* position, yaw, movement state, attach point nor any other record.
C18_SettingsIndependent ==
    [][(last'.op = "updateSettings" /\ last'.id \in DOMAIN players) =>
        LET i == last'.id
            m == last'.msg
        IN /\ DOMAIN players' = DOMAIN players
           /\ players'[i].name =
                 IF NameAccepted(m.name) THEN m.name ELSE players[i].name
           /\ players'[i].color =
                 IF ColorAccepted(m.color) THEN m.color ELSE players[i].color
           /\ players'[i].id = i
           /\ Motion(players'[i]) = Motion(players[i])
           /\ \A j \in DOMAIN players \ {i} : players'[j] = players[j]]_vars

\* updateSettings(id, "Bob", "not-a-color") on a swinging player has set the
\* name and kept the color
C18_Witness ==
    /\ last.op = "updateSettings"
    /\ last.id \in DOMAIN players
    /\ last.msg.name = "Bob"
    /\ last.msg.color = "not-a-color"
    /\ players[last.id].name = "Bob"
    /\ players[last.id].color = colors[1]
    /\ players[last.id].state = "swinging"

\* C19: updatePosition, updateSwing and updateSettings with an identity that
\* has no record leave the registry as it is.
C19_AbsentIsNoOp ==
    [][(/\ last'.op \in {"updatePosition", "updateSwing", "updateSettings"}
        /\ last'.id \notin DOMAIN players)
            => players' = players]_vars

\* updateSwing was called for an identity that has no record, while another
\* identity has one
C19_Witness ==
    /\ last.op = "updateSwing"
    /\ last.msg.active
    /\ last.id \notin DOMAIN players
    /\ players # << >>

====
